---- MODULE Spec2Model ----
(***************************************************************************)
(* Pico Light Orchestra (src/src/main.py): the cooperative playback        *)
(* runtime.  One asyncio event loop runs the Melody Sequencer              *)
(* (melody_player), the Tone Tasks (play_tone_once) and the HTTP handler   *)
(* (handle_request).  A step of the model is the run of one task from one  *)
(* suspension point (await) to the next; nothing interleaves inside it.    *)
(*                                                                         *)
(* Requests are served one at a time (spec section 1: "one command handled *)
(* at a time").  asyncio.CancelledError derives from BaseException, so the *)
(* handler's "except Exception" clauses do not catch it.                   *)
(* Durations are in milliseconds, duty in percent of full scale.           *)
(***************************************************************************)
EXTENDS Integers, Sequences, FiniteSets, TLC

\* ------------------------------------------------------------------ bounds
MaxNotes == 2      \* longest "notes" list of one /melody body
MaxQueue == 2      \* /melody is issued only when the queue it leaves is no longer
NumSlots == 2      \* Tone Task objects that can exist at once in the model

\* --------------------------------------------------------- program constants
FRAME_MS == 10
DUTY_NOTE == 32768
U16_MAX == 65535
LIGHT_INVERT == TRUE
LIGHT_MIN_RAW == 1896
LIGHT_MAX_RAW == 65467
LIGHT_GAMMA == 1
TRANSPOSE_MIN == -7
TRANSPOSE_MAX == 7
NORM_ALPHA == 20                  \* percent

\* ------------------------------------------------------------ input domains
ToneFreqs == {0, 440}
ToneMs == {0, 300}
ToneDuty == {0, 50}               \* percent
NoteFreqs == {0, 523}
NoteMs == {0, 20}
GapMs == {0, 20}
\* pitch modulation of a frame, per mille of the base frequency: the sensor
\* reading is an input, so transpose and vibrato are any value of their range
\* (2^(-7/12) to 2^(7/12) * 1.02)
Modulation == {667, 1528}

\* raw sensor readings (read_light_raw) of the playback runs: bright light
LightRaws == {LIGHT_MIN_RAW}
\* raw sensor readings of the runs that exercise the light functions: below,
\* at and above both calibration bounds, and levels between them
RawInputs ==
    {0, 1000, LIGHT_MIN_RAW - 1, LIGHT_MIN_RAW, LIGHT_MIN_RAW + 1, 2000, 17789, 33681,
     49574, 65000, LIGHT_MAX_RAW - 1, LIGHT_MAX_RAW, LIGHT_MAX_RAW + 1, U16_MAX}
\* the routes that read and change nothing: GET /, GET /sensor, GET /health,
\* and any other request line (404)
ReadRoutes == {"home", "sensor", "health", "unknown"}

Slots == 1..NumSlots
None == 0
\* _norm_prev = None
NormNone == -1
\* the float 1.0: brightness, and the semitones of a transpose, are counted
\* in thousandths
NormOne == 1000

VARIABLES
    h,              \* the request handler: pc and the request it is serving
    resp,           \* what the request being served was answered (status 0: nothing)
    tasks,          \* Tone Task objects, by slot
    api_note_task,  \* None or the slot of the task /tone started last
    items,          \* note_queue._items
    evt,            \* note_queue._evt
    stop_now,       \* the CancellationSignal
    seq,            \* melody_player: pc, the entry it plays, remaining, and
                    \* stopped: stop_now was set while it slept in this
                    \* entry's frame loop (a record of the run)
    buzzer_freq,    \* buzzer_pin.freq
    buzzer_duty,    \* buzzer_pin.duty_u16
    norm_prev       \* _norm_prev, the smoothed brightness

vars == <<h, resp, tasks, api_note_task, items, evt, stop_now, seq,
          buzzer_freq, buzzer_duty, norm_prev>>

playback == <<tasks, api_note_task, items, evt, stop_now, seq,
              buzzer_freq, buzzer_duty, norm_prev>>

\* ----------------------------------------------------------------- helpers
Max(a, b) == IF a > b THEN a ELSE b

\* ------------------------------------------------------ light normalization
\* no clamp at all: C16 fails under it
_clampNone(v, lo, hi) == v

_clamp(v, lo, hi) == IF v < lo THEN lo ELSE IF v > hi THEN hi ELSE v

\* lin ** g for a whole g, on brightness counted in steps of 1 / NormOne
RECURSIVE Pow(_, _)
Pow(lin, g) == IF g = 0 THEN NormOne ELSE (lin * Pow(lin, g - 1)) \div NormOne

light_raw_to_norm(raw0) ==
    LET raw == _clamp(raw0, LIGHT_MIN_RAW, LIGHT_MAX_RAW)
        span == LIGHT_MAX_RAW - LIGHT_MIN_RAW
    IN IF span <= 0 THEN 0
       ELSE LET lin0 == ((raw - LIGHT_MIN_RAW) * NormOne) \div span
                lin == IF LIGHT_INVERT THEN NormOne - lin0 ELSE lin0
                g == IF LIGHT_GAMMA > 0 THEN LIGHT_GAMMA ELSE 1
            IN Pow(lin, g)

\* a map that runs from b1 down to b0: C15 fails under it
_mapReversed(val, a0, a1, b0, b1) ==
    IF a1 = a0 THEN b0
    ELSE LET f0 == ((val - a0) * NormOne) \div (a1 - a0)
             f == IF f0 < 0 THEN 0 ELSE IF f0 > NormOne THEN NormOne ELSE f0
         IN b1 - (f * (b1 - b0)) \div NormOne

\* linear map of val in [a0, a1] onto [b0, b1], all counted in steps of 1 / NormOne
_map(val, a0, a1, b0, b1) ==
    IF a1 = a0 THEN b0
    ELSE LET f0 == ((val - a0) * NormOne) \div (a1 - a0)
             f == IF f0 < 0 THEN 0 ELSE IF f0 > NormOne THEN NormOne ELSE f0
         IN b0 + (f * (b1 - b0)) \div NormOne

\* the exponential smoothing of light_to_pitch_params: the new _norm_prev
Smooth(prev, norm) ==
    IF prev = NormNone THEN norm
    ELSE (NORM_ALPHA * norm + (100 - NORM_ALPHA) * prev) \div 100

\* transpose of light_to_pitch_params, in steps of 1 / NormOne semitone
Transpose(np) == _map(np, 0, NormOne, TRANSPOSE_MIN * NormOne, TRANSPOSE_MAX * NormOne)

\* the multipliers a frame can apply at a smoothed brightness: 2^(transpose/12)
\* is below 1 exactly when the transpose is negative
ModulationAt(np) == {m \in Modulation : (m < 1000) = (Transpose(np) < 0)}

\* the ambient light is steady during a run: a reading repeats the level
\* smoothed so far
Steady(raw) == norm_prev = NormNone \/ light_raw_to_norm(raw) = norm_prev

\* the multipliers of a frame that reads raw
FrameModulation(raw) == ModulationAt(Smooth(norm_prev, light_raw_to_norm(raw)))

FreeTask == [st |-> "free", freq |-> 0, ms |-> 0, duty |-> 0]

Finished(t) == t.st \in {"done", "cancelled"}
Live(t) == t.st \in {"created", "sleeping", "cancel_pending"}

\* a finished task object nothing refers to any more is collected
Collect(ts, handle) ==
    [s \in Slots |-> IF ~Finished(ts[s]) THEN ts[s]
                     ELSE IF s # handle THEN FreeTask
                     ELSE [FreeTask EXCEPT !.st = ts[s].st]]

FreeSlots(ts) == {s \in Slots : ts[s].st = "free"}
FirstFree(ts) == CHOOSE s \in FreeSlots(ts) : \A r \in FreeSlots(ts) : s <= r

\* duty clamp of /tone
ClampDuty(d) == IF d < 0 THEN 0 ELSE IF d > 100 THEN 100 ELSE d

\* u16 = int(duty * 65535), clamped to 0..65535
DutyU16(d) ==
    LET u == (d * U16_MAX) \div 100
    IN IF u < 0 THEN 0 ELSE IF u > U16_MAX THEN U16_MAX ELSE u

Audible(freq, ms, duty) == freq > 0 /\ ms > 0 /\ duty > 0

\* f_now = int(max(1, base_freq * trans_mult * (1.0 + vib)))
FNow(base, m) == Max(1, (base * m) \div 1000)

\* a stop_tone() that writes nothing: C19 fails under it
stop_toneKept(d) == d

\* stop_tone(): the duty it writes over the present one
stop_tone(d) == 0

\* a handler that starts the new task without cancel-and-await: C12 fails under it
AwaitOutcomeSkip == "skip"

\* a loop in which awaiting a task that has ended always raises: C13 fails under it
AwaitOutcomeDoneRaises ==
    IF api_note_task = None THEN "skip"
    ELSE IF Finished(tasks[api_note_task]) THEN "raises"
    ELSE "suspends"

\* how "await api_note_task" ends for the handler
AwaitOutcome ==
    IF api_note_task = None THEN "skip"
    ELSE IF tasks[api_note_task].st = "done" THEN "returns"
    ELSE IF tasks[api_note_task].st = "cancelled" THEN "raises"
    ELSE "suspends"

\* the handler: where it is, the request it serves (its route, the arguments
\* of a /tone, the body of a /melody), what /tone or /stop found when it
\* reached "if api_note_task:" and which command it served last
\* (a request whose body did not parse is no command)
NoBody == [ok |-> TRUE, gap |-> 0, notes |-> <<>>]
Handler(pc, route, freq, ms, duty, last) ==
    [pc |-> pc, route |-> route, freq |-> freq, ms |-> ms, duty |-> duty,
     body |-> NoBody, last |-> last,
     found |-> IF pc = "idle" \/ route \notin {"tone", "stop"} THEN "skip"
               ELSE IF h.pc = "await" THEN h.found
               ELSE AwaitOutcome]
IdleHandler == Handler("idle", "none", 0, 0, 0, "none")
NoEntry == [freq |-> 0, ms |-> 0, gap |-> 0]
Resp(route, status, playing, n) ==
    [route |-> route, status |-> status, playing |-> playing, n |-> n, norm |-> 0]
NoResp == Resp("none", 0, FALSE, 0)

\* -------------------------------------------------------------------- Init
Init ==
    /\ h = IdleHandler
    /\ resp = NoResp
    /\ tasks = [s \in Slots |-> FreeTask]
    /\ api_note_task = None
    /\ items = <<>>
    /\ evt = TRUE
    /\ stop_now = FALSE
    /\ seq = [pc |-> "get_ready", cur |-> NoEntry, remaining |-> 0, stopped |-> FALSE]
    /\ buzzer_freq = 0
    /\ buzzer_duty = 0
    /\ norm_prev = NormNone

\* --------------------------------------------------------------- Tone Task
\* play_tone_once, from its creation to the sleep (or to its end)
ToneStart(s) ==
    /\ tasks[s].st = "created"
    /\ IF Audible(tasks[s].freq, tasks[s].ms, tasks[s].duty)
       THEN /\ buzzer_freq' = tasks[s].freq
            /\ buzzer_duty' = DutyU16(tasks[s].duty)
            /\ tasks' = [tasks EXCEPT ![s].st = "sleeping"]
       ELSE /\ buzzer_duty' = stop_tone(buzzer_duty)
            /\ buzzer_freq' = buzzer_freq
            /\ tasks' = Collect([tasks EXCEPT ![s].st = "done"], api_note_task)
    /\ UNCHANGED <<norm_prev, h, resp, api_note_task, items, evt, stop_now, seq>>

\* asyncio.sleep(ms / 1000) returns: stop_tone()
ToneWake(s) ==
    /\ tasks[s].st = "sleeping"
    /\ buzzer_duty' = stop_tone(buzzer_duty)
    /\ tasks' = Collect([tasks EXCEPT ![s].st = "done"], api_note_task)
    /\ UNCHANGED <<norm_prev, h, resp, api_note_task, items, evt, stop_now, seq, buzzer_freq>>

\* an except clause that re-raises without stop_tone(): C2 fails under it
ToneCancelDutyKept(d) == d

\* the except clause of play_tone_once: the duty it leaves (stop_tone())
ToneCancelDuty(d) == stop_tone(d)

\* CancelledError is thrown into the sleep: stop_tone(); raise
ToneCancelled(s) ==
    /\ tasks[s].st = "cancel_pending"
    /\ buzzer_duty' = ToneCancelDuty(buzzer_duty)
    /\ tasks' = Collect([tasks EXCEPT ![s].st = "cancelled"], api_note_task)
    /\ UNCHANGED <<norm_prev, h, resp, api_note_task, items, evt, stop_now, seq, buzzer_freq>>

\* ------------------------------------------------------------- SimpleQueue
\* a queue that pops its newest entry (pop()): C8 fails under it
QueuePopLast(q) == [item |-> q[Len(q)], rest |-> SubSeq(q, 1, Len(q) - 1)]

\* self._items.pop(0), of get and get_nowait
QueuePop(q) == [item |-> Head(q), rest |-> Tail(q)]

\* self._items.append(item), of put
QueuePut(q, item) == Append(q, item)

\* the drain loop of /tone and /stop: get_nowait until it raises, counting
RECURSIVE DrainCount(_)
DrainCount(q) == IF q = <<>> THEN 0 ELSE 1 + DrainCount(QueuePop(q).rest)

RECURSIVE DrainLeft(_)
DrainLeft(q) == IF q = <<>> THEN q ELSE DrainLeft(QueuePop(q).rest)

\* -------------------------------------------------------- Melody Sequencer
Parked == [pc |-> "get_wait", cur |-> NoEntry, remaining |-> 0, stopped |-> FALSE]

\* a sequencer that never looks at stop_now after get(): C11 fails under it
SeqStoppedNever(stop) == FALSE

\* if stop_now.is_set(), of the entry just dequeued
SeqStopped(stop) == stop

\* melody_player from the top of its loop to its next suspension: get() pops
\* without suspending while the queue holds entries; an entry dequeued with
\* stop_now set is dropped (stop_tone(); continue); on the empty queue get()
\* clears the event and waits
RECURSIVE SeqLoop(_, _, _, _, _)
SeqLoop(q, stop, duty, freq, m) ==
    IF q = <<>>
    THEN [items |-> q, parked |-> TRUE, seq |-> Parked, duty |-> duty, freq |-> freq]
    ELSE LET e == QueuePop(q).item
             rest == QueuePop(q).rest
         IN IF SeqStopped(stop)
            THEN SeqLoop(rest, stop, stop_tone(duty), freq, m)
            ELSE IF e.freq > 0 /\ e.ms > 0
            THEN [items |-> rest, parked |-> FALSE,
                  seq |-> [pc |-> "frame", cur |-> e, remaining |-> e.ms, stopped |-> FALSE],
                  duty |-> DUTY_NOTE, freq |-> FNow(e.freq, m)]
            ELSE [items |-> rest, parked |-> FALSE,
                  seq |-> [pc |-> "rest", cur |-> e, remaining |-> 0, stopped |-> FALSE],
                  duty |-> 0, freq |-> freq]

\* after the note or the rest: sleep the gap, or stop_tone() and loop
AfterNote(duty, m) ==
    IF ~stop_now /\ seq.cur.gap > 0
    THEN [items |-> items, parked |-> FALSE,
          seq |-> [pc |-> "gap", cur |-> NoEntry, remaining |-> 0, stopped |-> FALSE],
          duty |-> duty, freq |-> buzzer_freq]
    ELSE SeqLoop(items, stop_now, stop_tone(duty), buzzer_freq, m)

SeqApply(r, raw, m) ==
    /\ norm_prev' = IF r.seq.pc = "frame"
                    THEN Smooth(norm_prev, light_raw_to_norm(raw)) ELSE norm_prev
    /\ items' = r.items
    /\ evt' = IF r.parked THEN FALSE ELSE evt
    /\ seq' = r.seq
    /\ buzzer_duty' = r.duty
    /\ buzzer_freq' = r.freq
    /\ UNCHANGED <<h, resp, tasks, api_note_task, stop_now>>

\* the sequencer starts, or returns from self._evt.wait()
SeqWake(raw) ==
    /\ seq.pc = "get_ready"
    /\ Steady(raw)
    /\ \E m \in FrameModulation(raw) :
         SeqApply(SeqLoop(items, stop_now, buzzer_duty, buzzer_freq, m), raw, m)

\* the frame sleep returns: next frame, or the end of the note
SeqFrame(raw) ==
    /\ seq.pc = "frame"
    /\ Steady(raw)
    /\ \E m \in FrameModulation(raw) :
         LET rem == seq.remaining - FRAME_MS
         IN IF rem > 0 /\ ~stop_now
            THEN SeqApply([items |-> items, parked |-> FALSE,
                           seq |-> [seq EXCEPT !.remaining = rem],
                           duty |-> DUTY_NOTE, freq |-> FNow(seq.cur.freq, m)], raw, m)
            ELSE SeqApply(AfterNote(0, m), raw, m)

\* the sleep of a rest returns
SeqRest(raw) ==
    /\ seq.pc = "rest"
    /\ Steady(raw)
    /\ \E m \in FrameModulation(raw) : SeqApply(AfterNote(buzzer_duty, m), raw, m)

\* the gap sleep returns
SeqGap(raw) ==
    /\ seq.pc = "gap"
    /\ Steady(raw)
    /\ \E m \in FrameModulation(raw) :
         SeqApply(SeqLoop(items, stop_now, buzzer_duty, buzzer_freq, m), raw, m)

\* ---------------------------------------------------------- handle_request
\* request bodies; ok = FALSE is a body json.loads or a conversion rejects
\* before anything else is done
ToneBodies ==
    {b \in [ok : {TRUE}, freq : ToneFreqs, ms : ToneMs, duty : ToneDuty] :
        Cardinality({f \in {"freq", "ms", "duty"} : b[f] = 0}) <= 1}
        \cup {[ok |-> FALSE, freq |-> 0, ms |-> 0, duty |-> 0]}

\* a note of a /melody body: a dict with numeric fields ("ok") or a dict with
\* a field int() rejects ("bad"); an entry that is no dict ("nondict") is
\* skipped like a note with ms <= 0 and is not among the inputs tried
NoteInputs ==
    {n \in [kind : {"ok"}, freq : NoteFreqs, ms : NoteMs] : n.freq > 0 \/ n.ms > 0}
        \cup {[kind |-> "bad", freq |-> 0, ms |-> 0]}

NoteLists == UNION {[1..k -> NoteInputs] : k \in 0..MaxNotes}

MelodyBodies ==
    [ok : {TRUE}, gap : GapMs, notes : NoteLists]
        \cup {[ok |-> FALSE, gap |-> 0, notes |-> <<>>]}

\* the handler has its response (or its 400) and writes it: await writer.drain()
Respond(r, freq, ms, duty) ==
    /\ resp' = r
    /\ h' = Handler("drain", r.route, freq, ms, duty, r.route)

\* the same for a body json.loads or a first conversion rejected
Reject(route) ==
    /\ resp' = Resp(route, 400, FALSE, 0)
    /\ h' = [Handler("drain", route, 0, 0, 0, h.last) EXCEPT !.found = "skip"]

RespondMelody(r, body) ==
    /\ resp' = r
    /\ h' = [Handler("drain", r.route, 0, 0, 0, r.route) EXCEPT !.body = body]

\* CancelledError leaves handle_request: the handler task ends, nothing is written
Abort(route, freq, ms, duty) ==
    /\ resp' = Resp(route, 0, FALSE, 0)
    /\ h' = Handler("aborted", route, freq, ms, duty, route)

\* api_note_task.cancel() on a task in its sleep, then await api_note_task
CancelAndAwait(route, freq, ms, duty) ==
    /\ tasks' = [tasks EXCEPT ![api_note_task].st = "cancel_pending"]
    /\ h' = Handler("await", route, freq, ms, duty, route)
    /\ UNCHANGED <<norm_prev, resp, api_note_task, items, evt, stop_now, seq, buzzer_freq, buzzer_duty>>

\* stop_now.set() of /tone and /stop, as the sequencer meets it: asleep in a
\* note's frame loop, the entry it is in has been stopped
StopSet(sq) == IF sq.pc = "frame" THEN [sq EXCEPT !.stopped = TRUE] ELSE sq

\* /tone after the await: api_note_task = None; stop_now.set(); drain;
\* create_task(play_tone_once(freq, ms, duty)); 202
TonePost(freq, ms, duty) ==
    LET ts == Collect(tasks, None)
        s == FirstFree(ts)
    IN /\ stop_now' = TRUE
       /\ items' = DrainLeft(items)
       /\ tasks' = [ts EXCEPT ![s] = [st |-> "created", freq |-> freq, ms |-> ms, duty |-> duty]]
       /\ api_note_task' = s
       /\ seq' = StopSet(seq)
       /\ Respond(Resp("tone", 202, Audible(freq, ms, duty), ms), freq, ms, duty)
       /\ UNCHANGED <<norm_prev, evt, buzzer_freq, buzzer_duty>>

\* POST /tone, from the body to the first suspension
ToneRequest(body) ==
    /\ h.pc = "idle"
    /\ IF ~body.ok
       THEN Reject("tone") /\ UNCHANGED playback
       ELSE LET duty == ClampDuty(body.duty)
            IN CASE AwaitOutcome \in {"skip", "returns"} -> TonePost(body.freq, body.ms, duty)
                 [] AwaitOutcome = "raises" ->
                        Abort("tone", body.freq, body.ms, duty) /\ UNCHANGED playback
                 [] AwaitOutcome = "suspends" -> CancelAndAwait("tone", body.freq, body.ms, duty)

\* /stop after the await: api_note_task = None; stop_now.set(); drain counting;
\* stop_tone(); 200
StopPost ==
    /\ api_note_task' = None
    /\ tasks' = Collect(tasks, None)
    /\ stop_now' = TRUE
    /\ items' = DrainLeft(items)
    /\ buzzer_duty' = stop_tone(buzzer_duty)
    /\ seq' = StopSet(seq)
    /\ Respond(Resp("stop", 200, FALSE, DrainCount(items)), 0, 0, 0)
    /\ UNCHANGED <<norm_prev, evt, buzzer_freq>>

\* POST /stop, to the first suspension
StopRequest ==
    /\ h.pc = "idle"
    /\ CASE AwaitOutcome \in {"skip", "returns"} -> StopPost
         [] AwaitOutcome = "raises" -> Abort("stop", 0, 0, 0) /\ UNCHANGED playback
         [] AwaitOutcome = "suspends" -> CancelAndAwait("stop", 0, 0, 0)

\* the awaited task has ended: the handler resumes in "await api_note_task"
AwaitResume ==
    /\ h.pc = "await"
    /\ AwaitOutcome \in {"returns", "raises"}
    /\ IF AwaitOutcome = "raises"
       THEN Abort(h.route, h.freq, h.ms, h.duty) /\ UNCHANGED playback
       ELSE IF h.route = "tone" THEN TonePost(h.freq, h.ms, h.duty) ELSE StopPost

\* a filter that also skips rests (freq = 0): C7 fails under it
NoteValidAudible(n) == n.freq > 0 /\ n.ms > 0

\* the /melody filter: an entry is queued when ms > 0
NoteValid(n) == n.ms > 0

\* the for loop of /melody over notes: the queue it leaves, the count, and
\* whether a conversion raised
RECURSIVE MelodyLoop(_, _, _, _)
MelodyLoop(notes, q, count, gap) ==
    IF notes = <<>>
    THEN [items |-> q, count |-> count, error |-> FALSE]
    ELSE LET n == Head(notes)
         IN IF n.kind = "nondict" THEN MelodyLoop(Tail(notes), q, count, gap)
            ELSE IF n.kind = "bad" THEN [items |-> q, count |-> count, error |-> TRUE]
            ELSE IF NoteValid(n)
            THEN MelodyLoop(Tail(notes),
                            QueuePut(q, [freq |-> n.freq, ms |-> n.ms, gap |-> gap]),
                            count + 1, gap)
            ELSE MelodyLoop(Tail(notes), q, count, gap)

\* stop_now after a /melody whose loop ended without raising:
\* if stop_now.is_set(): stop_now.clear()
MelodyStopNow(s) == IF s THEN FALSE ELSE s

\* a put() that appends without setting the event: C21 fails under it
QueueWakeMissed(sq, count) == sq

\* self._evt.set() of put, as the sequencer meets it: waiting in
\* self._evt.wait() it becomes ready to run
QueueWake(sq, count) ==
    IF count > 0 /\ sq.pc = "get_wait" THEN [sq EXCEPT !.pc = "get_ready"] ELSE sq

\* POST /melody: put() does not suspend, so the route runs to its response
MelodyRequest(body) ==
    /\ h.pc = "idle"
    /\ Len(MelodyLoop(body.notes, items, 0, body.gap).items) <= MaxQueue
    /\ IF ~body.ok
       THEN /\ resp' = Resp("melody", 400, FALSE, 0)
            /\ h' = [Handler("drain", "melody", 0, 0, 0, h.last) EXCEPT !.body = body]
            /\ UNCHANGED playback
       ELSE LET r == MelodyLoop(body.notes, items, 0, body.gap)
            IN /\ items' = r.items
               /\ evt' = IF r.count > 0 THEN TRUE ELSE evt
               /\ seq' = QueueWake(seq, r.count)
               /\ stop_now' = IF r.error THEN stop_now ELSE MelodyStopNow(stop_now)
               /\ RespondMelody(IF r.error THEN Resp("melody", 400, FALSE, 0)
                                           ELSE Resp("melody", 200, FALSE, r.count), body)
               /\ UNCHANGED <<norm_prev, tasks, api_note_task, buzzer_freq, buzzer_duty>>

\* a GET route that computed its brightness with light_to_pitch_params():
\* C14 fails under it
SensorNormPrevSmoothed(prev, raw) == Smooth(prev, light_raw_to_norm(raw))

\* _norm_prev after GET / or GET /sensor has read the sensor: read_light_raw
\* and light_raw_to_norm do not touch it
SensorNormPrev(prev, raw) == prev

\* GET /, GET /sensor (n is raw, norm is norm), GET /health, and the 404 of
\* any other request; time.sleep_ms in read_light_raw does not suspend
GetRequest(route, raw) ==
    /\ h.pc = "idle"
    /\ Steady(raw)
    /\ h' = Handler("drain", route, 0, 0, 0, h.last)
    /\ resp' = IF route \in {"home", "sensor"}
               THEN [Resp(route, 200, FALSE, raw) EXCEPT !.norm = light_raw_to_norm(raw)]
               ELSE IF route = "health" THEN Resp(route, 200, FALSE, 0)
               ELSE Resp(route, 404, FALSE, 0)
    /\ norm_prev' = IF route \in {"home", "sensor"}
                    THEN SensorNormPrev(norm_prev, raw) ELSE norm_prev
    /\ UNCHANGED <<tasks, api_note_task, items, evt, stop_now, seq, buzzer_freq, buzzer_duty>>

\* the response is out and the connection closed, or the handler task has
\* ended (h keeps which command was served last); the loop has by then run
\* every task that was ready, a new Tone Task included
HandlerDone ==
    /\ h.pc \in {"drain", "aborted"}
    /\ \A s \in Slots : tasks[s].st # "created"
    /\ h' = Handler("idle", "none", 0, 0, 0, h.last)
    /\ resp' = NoResp
    /\ UNCHANGED playback

\* -------------------------------------------------------------------- Next
Next ==
    \/ \E s \in Slots : ToneStart(s)
    \/ \E s \in Slots : ToneWake(s)
    \/ \E s \in Slots : ToneCancelled(s)
    \/ \E raw \in LightRaws : SeqWake(raw)
    \/ \E raw \in LightRaws : SeqFrame(raw)
    \/ \E raw \in LightRaws : SeqRest(raw)
    \/ \E raw \in LightRaws : SeqGap(raw)
    \/ \E body \in ToneBodies : ToneRequest(body)
    \/ \E body \in MelodyBodies : MelodyRequest(body)
    \/ StopRequest
    \/ \E route \in ReadRoutes : \E raw \in LightRaws : GetRequest(route, raw)
    \/ AwaitResume
    \/ HandlerDone

Spec == Init /\ [][Next]_vars

\* ------------------------------------------------- the light-function runs
\* the same program under any sensor reading of RawInputs: GET / and
\* GET /sensor apply read_light_raw and light_raw_to_norm, and the frames of a
\* one-note melody apply light_to_pitch_params
LightMelody == [ok |-> TRUE, gap |-> 0, notes |-> <<[kind |-> "ok", freq |-> 523, ms |-> 20]>>]

NextLight ==
    \/ \E route \in {"home", "sensor"} : \E raw \in RawInputs : GetRequest(route, raw)
    \/ MelodyRequest(LightMelody)
    \/ HandlerDone
    \/ \E raw \in RawInputs : SeqWake(raw)
    \/ \E raw \in RawInputs : SeqFrame(raw)

\* the event loop runs a task that is ready: the sequencer, once its sleep
\* has run out or its event is set, takes its next step
SeqRun ==
    \E raw \in LightRaws : SeqWake(raw) \/ SeqFrame(raw) \/ SeqRest(raw) \/ SeqGap(raw)

SpecFair == Init /\ [][Next]_vars /\ WF_vars(SeqRun)

SpecLight == Init /\ [][NextLight]_vars

TypeOK ==
    /\ h.pc \in {"idle", "await", "drain", "aborted"}
    /\ api_note_task \in {None} \cup Slots
    /\ stop_now \in BOOLEAN
    /\ evt \in BOOLEAN
    /\ seq.pc \in {"get_ready", "get_wait", "frame", "rest", "gap"}
    /\ seq.stopped \in BOOLEAN
    /\ buzzer_duty \in 0..U16_MAX
    /\ norm_prev \in {NormNone} \cup 0..NormOne

\* ------------------------------------------------------------------ claims
ToneSleeping == \E s \in Slots : tasks[s].st = "sleeping"
ToneLive == \E s \in Slots : Live(tasks[s])

\* a command has been served to its end (answered, or its handler ended) and
\* no other has been issued since
Served(route) == h.last = route /\ h.pc \in {"idle", "drain", "aborted"}
\* the same, before the handler has gone: resp still holds what it answered
JustServed(route) == h.route = route /\ h.pc \in {"drain", "aborted"} /\ resp.status # 400

\* C1: a Tone Task is never in its audible sleep while the Melody Sequencer
\* is in a note's frame loop with the buzzer carrying the frame's duty (the
\* sequencer has driven the buzzer over the sounding tone)
C1_OneVoice ==
    ~(ToneSleeping /\ seq.pc = "frame" /\ buzzer_duty = DUTY_NOTE)

\* C2: a Tone Task cancelled in its sleep ends only by its except clause,
\* which leaves duty 0, and the canceller leaves its await of the task only
\* after the task has so ended
C2_CancelSilences ==
    [][/\ \A s \in Slots :
            (tasks[s].st = "cancel_pending" /\ tasks'[s].st # "cancel_pending")
                => (tasks'[s].st = "cancelled" /\ buzzer_duty' = 0)
       /\ (h.pc = "await" /\ h'.pc # "await")
            => (tasks[api_note_task].st = "cancelled" /\ tasks' = tasks)]_vars

\* C2 witness: the task was cancelled in its sleep and has silenced the
\* buzzer; its canceller has not resumed yet
C2_Witness ==
    /\ h.pc = "await"
    /\ api_note_task # None
    /\ tasks[api_note_task].st = "cancelled"
    /\ buzzer_duty = 0

\* C3: when a well-formed /tone has been served, it was answered 202,
\* stop_now is set, the queue is empty, every earlier Tone Task has finished
\* and api_note_task is the task it started
C3_ToneSequence ==
    JustServed("tone") =>
        /\ h.pc = "drain" /\ resp.status = 202
        /\ stop_now
        /\ items = <<>>
        /\ api_note_task # None
        /\ tasks[api_note_task].st # "cancelled"
        /\ \A s \in Slots \ {api_note_task} : ~Live(tasks[s])

\* a step of the Melody Sequencer that drives the buzzer with a frame
SeqDrives == seq' # seq /\ seq'.pc = "frame"

\* C4: once a well-formed /tone has been served, and until another command
\* is issued, the queue is empty and the Melody Sequencer drives no frame
C4_ToneCutsMelody ==
    [][(Served("tone") /\ h' = h) => (items = <<>> /\ ~SeqDrives)]_vars

\* the step in which the handler comes to the end of a /stop
StopEnds == h.pc \in {"idle", "await"} /\ h'.pc \in {"drain", "aborted"} /\ h'.route = "stop"

\* C5: a /stop that ends with N > 0 entries in the queue empties the queue
\* and answers 200 with cleared = N
C5_StopCleared ==
    [][(StopEnds /\ items # <<>>)
          => (resp'.status = 200 /\ resp'.n = Len(items) /\ items' = <<>>)]_vars

\* C6: once a /stop has been served, and until another command is issued,
\* no Tone Task is live, stop_now is set, the queue is empty and the duty is 0
C6_StopSilences ==
    Served("stop") => (~ToneLive /\ stop_now /\ items = <<>> /\ buzzer_duty = 0)

\* the entries a well-formed /melody body is to append: those of its notes
\* with ms > 0, in their order, each with the body's gap
RECURSIVE Queued(_, _)
Queued(notes, gap) ==
    IF notes = <<>> THEN <<>>
    ELSE LET n == notes[Len(notes)]
             front == Queued(SubSeq(notes, 1, Len(notes) - 1), gap)
         IN IF n.kind = "ok" /\ n.ms > 0
            THEN front \o <<[freq |-> n.freq, ms |-> n.ms, gap |-> gap]>>
            ELSE front

WellFormed(notes) == \A i \in 1..Len(notes) : notes[i].kind # "bad"

\* the step in which the handler serves a /melody whose body parses and
\* whose fields all convert
MelodyServed ==
    /\ h.pc = "idle" /\ h'.pc = "drain" /\ h'.route = "melody"
    /\ h'.body.ok /\ WellFormed(h'.body.notes)

\* C7: a step that serves a well-formed /melody appends Queued(notes, gap) to
\* the queue, answers 200 with queued = its length and leaves stop_now clear
C7_MelodyAppends ==
    [][MelodyServed =>
          /\ items' = items \o Queued(h'.body.notes, h'.body.gap)
          /\ resp' = Resp("melody", 200, FALSE, Len(Queued(h'.body.notes, h'.body.gap)))
          /\ ~stop_now']_vars

\* C7 witness: a /melody of a note and a rest (freq 0, ms > 0) with gap 20
\* has been answered queued = 2 and both are in the queue, stop_now clear
C7_Witness ==
    /\ h.pc = "drain" /\ resp = Resp("melody", 200, FALSE, 2)
    /\ Len(h.body.notes) = 2 /\ h.body.gap = 20
    /\ items = <<[freq |-> 523, ms |-> 20, gap |-> 20], [freq |-> 0, ms |-> 20, gap |-> 20]>>
    /\ ~stop_now

\* a step of the sequencer (the handler does not move) that takes from the queue
SeqTakes == h' = h /\ items' # items

\* C8: the queue changes only by an append at its end (/melody), by a drain
\* to empty (/tone, /stop) or by the sequencer taking from its front; a
\* sequencer that plays what it took took exactly the head
C8_Fifo ==
    [][/\ items' # items =>
            \/ h' # h /\ h'.route = "melody" /\ Len(items') > Len(items)
                      /\ SubSeq(items', 1, Len(items)) = items
            \/ h' # h /\ h'.route \in {"tone", "stop"} /\ items' = <<>>
            \/ SeqTakes /\ Len(items') < Len(items)
                        /\ items' = SubSeq(items, Len(items) - Len(items') + 1, Len(items))
       /\ (SeqTakes /\ seq'.pc \in {"frame", "rest"})
            => (seq'.cur = Head(items) /\ items' = Tail(items))
       /\ (SeqTakes /\ ~stop_now) => seq'.pc \in {"frame", "rest"}]_vars

\* C8 witness: the sequencer plays an entry while two different entries wait
C8_Witness ==
    /\ seq.pc \in {"frame", "rest"}
    /\ Len(items) = 2 /\ items[1] # items[2] /\ seq.cur # items[1]

\* C9 (what is reported): an audible /tone that has been served was
\* answered 202 with playing = true and until_ms_from_now = ms
C9_AudibleReported ==
    (JustServed("tone") /\ Audible(h.freq, h.ms, h.duty))
        => resp = Resp("tone", 202, TRUE, h.ms)

\* C10: a step that answers 400 changes neither the queue, stop_now, the
\* Tone Tasks and their handle, nor the buzzer
C10_RejectedNoChange ==
    [][(h.pc = "idle" /\ h'.pc = "drain" /\ resp'.status = 400)
          => UNCHANGED <<items, stop_now, tasks, api_note_task, buzzer_freq, buzzer_duty>>]_vars

\* a step of the Melody Sequencer: it moves from one suspension to the next
SeqStep == h' = h /\ seq' # seq

\* C11: every sequencer step taken with stop_now set writes no non-zero duty
\* (the duty it leaves is 0, or the one it found when it wrote nothing) and
\* starts no note or rest: what it dequeues is dropped, and it ends parked
C11_SilentWhileStopped ==
    [][(SeqStep /\ stop_now)
          => /\ buzzer_duty' = 0 \/ (buzzer_duty' = buzzer_duty /\ items = <<>>)
             /\ seq'.pc = "get_wait" /\ seq'.cur = NoEntry
             /\ items' = <<>>]_vars

\* a /melody queued its first note and then failed on the second, leaving
\* stop_now set; the sequencer has since dropped the entry and is parked
C11_Witness ==
    /\ h.pc = "drain" /\ resp = Resp("melody", 400, FALSE, 0)
    /\ Len(h.body.notes) = 2 /\ h.body.notes[1].kind = "ok" /\ h.body.notes[1].ms > 0
    /\ h.body.notes[1].freq > 0
    /\ stop_now /\ items = <<>> /\ seq.pc = "get_wait" /\ buzzer_duty = 0

\* the Tone Tasks started and not yet finished
LiveTasks == {s \in Slots : Live(tasks[s])}

\* C12: in every reachable state at most one Tone Task is outstanding, and
\* it is the one api_note_task refers to
C12_OneToneTask ==
    /\ Cardinality(LiveTasks) <= 1
    /\ LiveTasks \subseteq {api_note_task}

\* a /tone arrived while a Tone Task was in its sleep: the handler has
\* cancelled it and awaits it, and it is the only task outstanding
C12_Witness ==
    /\ h.pc = "await" /\ h.route = "tone"
    /\ LiveTasks = {api_note_task}
    /\ tasks[api_note_task].st = "cancel_pending"

\* the handler takes up a /tone (body accepted) or a /stop
Takes(route) == h.pc = "idle" /\ h'.pc # "idle" /\ h'.route = route /\ resp'.status # 400

\* what a /stop does when no Tone Task was ever started
StopEffect ==
    /\ h'.pc = "drain" /\ resp' = Resp("stop", 200, FALSE, Len(items))
    /\ stop_now' /\ items' = <<>> /\ api_note_task' = None
    /\ buzzer_duty' = 0 /\ buzzer_freq' = buzzer_freq

\* what a /tone does when no Tone Task was ever started
ToneEffect ==
    /\ h'.pc = "drain"
    /\ resp' = Resp("tone", 202, Audible(h'.freq, h'.ms, h'.duty), h'.ms)
    /\ stop_now' /\ items' = <<>>
    /\ api_note_task' # None /\ tasks'[api_note_task'].st = "created"
    /\ LiveTasks' = {api_note_task'}
    /\ buzzer_duty' = buzzer_duty /\ buzzer_freq' = buzzer_freq

\* api_note_task refers to a task that has completed on its own
HandleDone == api_note_task # None /\ tasks[api_note_task].st = "done"

\* C13: a /stop or /tone issued when api_note_task refers to a task that
\* completed on its own does not fail and has the effect it has when
\* api_note_task is None
C13_StopFinishedNoop ==
    [][/\ (Takes("stop") /\ (HandleDone \/ api_note_task = None)) => StopEffect
       /\ (Takes("tone") /\ (HandleDone \/ api_note_task = None)) => ToneEffect]_vars

\* a /stop found the handle on a task that had completed, with an entry
\* still queued, and has answered 200 cleared=1
C13_Witness ==
    /\ h.pc = "drain" /\ h.found = "returns"
    /\ resp = Resp("stop", 200, FALSE, 1)
    /\ stop_now /\ items = <<>> /\ buzzer_duty = 0 /\ api_note_task = None

\* the handler serves GET /, GET /sensor, GET /health or answers 404
ReadServed == h.pc = "idle" /\ h'.pc # "idle" /\ h'.route \in ReadRoutes

\* C14: a read-only query or a 404 runs to its response and leaves the queue,
\* stop_now, the Tone Task handle and tasks, the sequencer, the actuator and
\* _norm_prev as they were
C14_ReadsChangeNothing ==
    [][ReadServed
          => /\ h'.pc = "drain" /\ h'.last = h.last
             /\ UNCHANGED <<items, evt, stop_now, api_note_task, tasks, seq,
                            buzzer_freq, buzzer_duty, norm_prev>>]_vars

\* GET /sensor was answered, with the reading and its brightness, while a
\* note was sounding with an entry queued behind it
C14_Witness ==
    /\ h.pc = "drain" /\ h.route = "sensor"
    /\ resp = [Resp("sensor", 200, FALSE, LIGHT_MIN_RAW) EXCEPT !.norm = NormOne]
    /\ seq.pc = "frame" /\ buzzer_duty = DUTY_NOTE /\ items # <<>>
    /\ norm_prev = NormOne /\ stop_now = FALSE

\* the brightness levels transposes are compared at
Brightness == 0..NormOne

\* C15 (under SpecLight): the transpose of the smoothed brightness is within
\* [TRANSPOSE_MIN, TRANSPOSE_MAX], is TRANSPOSE_MIN at 0 and TRANSPOSE_MAX at
\* 1, is no lower than the transpose of any lower brightness and no higher
\* than that of any higher one
C15_TransposeMonotone ==
    norm_prev # NormNone =>
        LET t == Transpose(norm_prev)
        IN /\ t >= TRANSPOSE_MIN * NormOne /\ t <= TRANSPOSE_MAX * NormOne
           /\ norm_prev = 0 => t = TRANSPOSE_MIN * NormOne
           /\ norm_prev = NormOne => t = TRANSPOSE_MAX * NormOne
           /\ Transpose(0) = TRANSPOSE_MIN * NormOne
           /\ Transpose(NormOne) = TRANSPOSE_MAX * NormOne
           /\ \A b \in Brightness :
                 /\ b <= norm_prev => Transpose(b) <= t
                 /\ b >= norm_prev => Transpose(b) >= t

\* a frame of the sequencer has smoothed a brightness strictly between the
\* ends, and its transpose is strictly between the ends too
C15_Witness ==
    /\ seq.pc = "frame" /\ norm_prev > 0 /\ norm_prev < NormOne
    /\ Transpose(norm_prev) > TRANSPOSE_MIN * NormOne
    /\ Transpose(norm_prev) < TRANSPOSE_MAX * NormOne

\* C16 (under SpecLight): the brightness GET / and GET /sensor report for a
\* reading lies in [0, 1]; below LIGHT_MIN_RAW it is that of LIGHT_MIN_RAW and
\* above LIGHT_MAX_RAW that of LIGHT_MAX_RAW; it is 1.0 at 1896 and 0.0 at 65467
C16_NormSaturates ==
    (h.pc = "drain" /\ resp.route \in {"home", "sensor"}) =>
        /\ resp.norm >= 0 /\ resp.norm <= NormOne
        /\ resp.n <= LIGHT_MIN_RAW => resp.norm = NormOne
        /\ resp.n >= LIGHT_MAX_RAW => resp.norm = 0
        /\ resp.n < LIGHT_MIN_RAW => resp.norm = light_raw_to_norm(LIGHT_MIN_RAW)
        /\ resp.n > LIGHT_MAX_RAW => resp.norm = light_raw_to_norm(LIGHT_MAX_RAW)
        /\ LIGHT_MIN_RAW = 1896 /\ LIGHT_MAX_RAW = 65467 /\ LIGHT_INVERT /\ LIGHT_GAMMA = 1

\* GET /sensor answered a reading above LIGHT_MAX_RAW with brightness 0.0
C16_Witness ==
    /\ h.pc = "drain" /\ resp.route = "sensor"
    /\ resp.n > LIGHT_MAX_RAW /\ resp.norm = 0

\* C17: while a Tone Task is in the sleep of an audible tone the buzzer
\* carries the duty that task wrote: no other task has written the actuator
C17_ToneStaysAudible ==
    \A s \in Slots :
        tasks[s].st = "sleeping" => buzzer_duty = DutyU16(tasks[s].duty)

\* a step in which the sequencer writes one more frame of the entry it is in
SeqNextFrame ==
    /\ SeqStep /\ seq.pc = "frame" /\ seq'.pc = "frame"
    /\ seq'.cur = seq.cur /\ seq'.remaining < seq.remaining
    /\ buzzer_duty' = DUTY_NOTE

\* C18: once stop_now has been set while the sequencer slept in an entry's
\* frame loop, the sequencer writes no further frame of that entry
C18_StopAbortsNote ==
    [][seq.stopped => ~SeqNextFrame]_vars

\* the Melody Sequencer waits in get() on the empty queue
SeqParked == seq.pc \in {"get_wait", "get_ready"} /\ items = <<>>

\* C19: in every reachable state in which no Tone Task is live and the
\* Melody Sequencer waits on the empty queue, the buzzer's duty is 0
C19_NeverStuckOn ==
    (~ToneLive /\ SeqParked) => buzzer_duty = 0

\* a tone that sounded was cancelled in its sleep, a note of a melody has
\* been played to its end since, and the player is idle with duty 0
C19_Witness ==
    /\ ~ToneLive /\ seq.pc = "get_wait" /\ items = <<>> /\ h.pc = "idle"
    /\ api_note_task # None /\ tasks[api_note_task].st = "cancelled"
    /\ buzzer_freq \notin {0, 440}
    /\ buzzer_duty = 0

\* a step in which the sequencer comes to the end of a note or a rest
EntryEnds ==
    /\ SeqStep /\ seq.pc \in {"frame", "rest"}
    /\ ~(seq'.pc = "frame" /\ seq'.cur = seq.cur /\ seq'.remaining < seq.remaining)

\* C20: a note or rest that ends with stop_now clear and gap_ms > 0 leaves
\* the duty 0 and the sequencer in its gap sleep with the queue untouched,
\* and nothing is dequeued before that sleep returns; one that ends with
\* stop_now set leaves the duty 0 and goes on to get() without a gap sleep
C20_GapAfterNote ==
    [][/\ (EntryEnds /\ ~stop_now /\ seq.cur.gap > 0)
            => (seq'.pc = "gap" /\ items' = items /\ buzzer_duty' = 0)
       /\ (EntryEnds /\ stop_now)
            => (seq'.pc = "get_wait" /\ items' = <<>> /\ buzzer_duty' = 0)
       /\ (seq.pc = "gap" /\ seq'.pc = "gap" /\ h' = h) => items' = items]_vars

\* a step that takes entries from the front of the queue: the sequencer's
\* get(), or the drain of /tone and /stop
Removed == items # <<>> /\ Len(items') < Len(items)

\* C21 (under SpecFair): a sequencer waiting in self._evt.wait() takes no
\* step; one woken on an empty queue goes back to waiting and writes nothing
\* to the buzzer; and whenever the queue holds an entry, a step that removes
\* entries from its front eventually follows: no entry stays queued for ever
\* (the queue is empty again and again, or entries are removed from its front
\* again and again)
C21_SequencerNeverLost ==
    /\ [][/\ (seq.pc = "get_wait" /\ h' = h) => seq' = seq
          /\ (SeqStep /\ seq.pc = "get_ready" /\ items = <<>>)
                => (seq' = Parked /\ ~evt' /\ items' = <<>>
                    /\ buzzer_duty' = buzzer_duty /\ buzzer_freq' = buzzer_freq)]_vars
    /\ ([]<>(items = <<>>) \/ []<><<Removed>>_vars)

\* the one entry a /melody queued has been taken by the sequencer, which is
\* in the first frame of the note, while the response is still being written
C21_Witness ==
    /\ h.pc = "drain" /\ resp = Resp("melody", 200, FALSE, 1)
    /\ items = <<>> /\ evt
    /\ seq.pc = "frame" /\ seq.cur = [freq |-> 523, ms |-> 20, gap |-> 20]
    /\ seq.remaining = 20 /\ buzzer_duty = DUTY_NOTE

\* C22: in every reachable state (each is a suspension point of every task)
\* stop_now set implies that the queue is empty
C22_StoppedQueueEmpty ==
    stop_now => items = <<>>

====
